---- MODULE Spec2Model ----
(***************************************************************************)
(* Bulk scrapers of FriendsFC: the per-row downloads, the bulk loops, the  *)
(* "smart" resume/restart front ends, the JSONP unwrap and the directory   *)
(* naming shared by the scrapers and the processors.                       *)
(*                                                                         *)
(* A table (DataFrame) is a sequence of rows; the label of the row at      *)
(* sequence position i is i-1 (the default RangeIndex of a table loaded    *)
(* from CSV).  A filtered table is the sequence of the labels it keeps, so *)
(* that label (what iterrows() yields) and position (what iloc[] takes)    *)
(* stay distinct notions, as they are in pandas.                           *)
(***************************************************************************)
EXTENDS Integers, Sequences, FiniteSets, TLC

----------------------------------------------------------------------------
(* Bounds of the model *)
MaxRows == 2
MaxBatch == 2
MaxNameLen == 3
MaxRespLen == 4
MaxPlayers == 2

(* Retry(total=3, ...) mounted on the scrapers' sessions *)
RetryTotal == 3

VARIABLES
    table,       \* the seasons / matches / competitions table
    disk,        \* disk[i]: state of the target file of row label i-1
    disk0,       \* the disk when the call started
    kind,        \* which scraper runs
    filters,     \* the labels the continente/pais/competicion filters keep
    smart,       \* called through the smart_download_* / get_seasons_simple front end
    restart_from_zero,
    skip_existing,
    start_index,
    limit,       \* {} for None, {n} for the integer n
    to_process,  \* df_to_process: labels of the rows of the selected range
    pos,         \* number of rows of to_process the loop has gone through
    stats,       \* the counters of the run
    attempted,   \* labels handed to the per-row download, in order
    log,         \* HTTP requests and sleeps, in order
    attempts,    \* transmissions of the last HTTP request (1 + adapter retries)
    result,      \* return value of the last per-row download
    pc,          \* "idle", "loop", "done"
    ret,         \* what the call returned: "none", "stats", "alldone", "table", "raised"
    interrupted, \* a KeyboardInterrupt was delivered
    all_seasons, \* labels of the competitions whose seasons were collected
    save_csv,
    csv,         \* content of the seasons CSV, <<>> when not written
    season_row,  \* directory naming: the row whose paths are computed
    paths,       \* directory naming: the paths computed for season_row
    content,     \* JSONP: the response text
    unwrapped,   \* JSONP: what the two unwrap routines made of it
    data_dir_arg, \* "data" (the default) or "other": the data_dir the scraper was built with
    data_tree,   \* files under data/ when the scraper works in another directory
    page,        \* UI: "none", "clubes" or "jugadores"
    page_pc,     \* UI: where the page script is
    selected,    \* UI: how many of the four selectors have a value
    squads_file, \* UI: squads.json of the selected season
    playersbio_dir, \* UI: the playersbio folder of the season: "absent", "empty", "files"
    messages,    \* UI: st.info / st.warning / st.error shown, in order
    reads,       \* UI: JSON files of the season the script has read
    name_arg,    \* sanitize_dir_name: its argument, [none, str]
    clean_name,  \* sanitize_dir_name: <<>> before the call, <<result>> after it
    bio_squads,  \* player bios: bio_squads[s], squads.json of season s lists its players
    bio_files,   \* player bios: bio_files[s][p], the file of player p of season s
    bio          \* player bios: the bulk run (position, counters, result)

vars == <<table, disk, disk0, kind, filters, smart, restart_from_zero,
          skip_existing, start_index, limit, to_process, pos, stats,
          attempted, log, attempts, result, pc, ret, interrupted,
          all_seasons, save_csv, csv, season_row, paths, content, unwrapped,
          data_dir_arg, data_tree, page, page_pc, selected, squads_file,
          playersbio_dir, messages, reads, name_arg, clean_name,
          bio_squads, bio_files, bio>>

runVars == <<table, disk, disk0, kind, filters, smart, restart_from_zero,
             skip_existing, start_index, limit, to_process, pos, stats,
             attempted, log, attempts, result, pc, ret, interrupted,
             all_seasons, save_csv, csv>>

Min(a, b) == IF a <= b THEN a ELSE b

----------------------------------------------------------------------------
(* Tables, rows and files *)

\* "ok": the row's data and its season directory are there;
\* "nodata": the essential data (torneo id, season name, partido id) cannot be
\*           extracted from the row; "nodir": the season directory was not created.
RowStates == {"ok", "nodata", "nodir"}

Rows == [st : RowStates]

\* "old": a complete file from an earlier run; "new": written by this run;
\* "partial": opened for writing and not completed.
FileStates == {"absent", "old", "new", "partial"}

Kinds == {"fixture", "standings", "events", "seasons"}

Labels(df) == [i \in 1..Len(df) |-> i - 1]

Row(l) == table[l + 1]

\* os.path.exists(json_path)
Exists(d, l) == d[l + 1] # "absent"

ZeroStats == [procesados |-> 0, exitosos |-> 0, saltados |-> 0, fallos |-> 0]

Req(l) == [ev |-> "req", row |-> l]
Sleep(l) == [ev |-> "sleep", row |-> l]

----------------------------------------------------------------------------
(* Filtering and the resume scans *)

\* _apply_filters: the rows whose columns equal the filter values are kept, in
\* table order and with their labels.  A filter is given as the set f of the
\* labels it keeps; no filter keeps every row.
apply_filters(df, f) == SelectSeq(Labels(df), LAMBDA l : l \in f)

Filters == SUBSET (0..(MaxRows - 1))

\* find_fixture_resume_index: the path of a row without data cannot be built,
\* _get_json_path raises and the bare except returns the label.
RECURSIVE FixtureScan(_, _, _)
FixtureScan(df_filtered, d, i) ==
    IF i > Len(df_filtered) THEN Len(df_filtered)
    ELSE LET idx == df_filtered[i] IN
         IF Row(idx).st = "nodata" THEN idx
         ELSE IF ~Exists(d, idx) THEN idx
         ELSE FixtureScan(df_filtered, d, i + 1)

find_fixture_resume_index(d, f) == FixtureScan(apply_filters(table, f), d, 1)

\* find_standings_resume_index: a row without season name is passed over
\* (continue); the first row whose standings.json is missing returns its label.
RECURSIVE StandingsScan(_, _, _)
StandingsScan(df_filtered, d, i) ==
    IF i > Len(df_filtered) THEN Len(df_filtered)
    ELSE LET idx == df_filtered[i] IN
         IF Row(idx).st = "nodata" THEN StandingsScan(df_filtered, d, i + 1)
         ELSE IF ~Exists(d, idx) THEN idx
         ELSE StandingsScan(df_filtered, d, i + 1)

find_standings_resume_index(d, f) == StandingsScan(apply_filters(table, f), d, 1)

\* find_event_resume_index (find_stats_resume_index is the same code): a row
\* with insufficient data is passed over; the directory is created on the way.
RECURSIVE EventScan(_, _, _)
EventScan(df_filtered, d, i) ==
    IF i > Len(df_filtered) THEN Len(df_filtered)
    ELSE LET idx == df_filtered[i] IN
         IF Row(idx).st = "nodata" THEN EventScan(df_filtered, d, i + 1)
         ELSE IF ~Exists(d, idx) THEN idx
         ELSE EventScan(df_filtered, d, i + 1)

find_event_resume_index(d, f) == EventScan(apply_filters(table, f), d, 1)

find_resume_index(k, d, f) ==
    CASE k = "fixture" -> find_fixture_resume_index(d, f)
      [] k = "standings" -> find_standings_resume_index(d, f)
      [] OTHER -> find_event_resume_index(d, f)

\* The restart branch of smart_download_*: os.remove on the target file of
\* every row of the filtered table whose path can be built.
RemoveFiltered(d, f) ==
    LET df_filtered == apply_filters(table, f)
        hit == {df_filtered[i] : i \in 1..Len(df_filtered)}
    IN [i \in 1..Len(table) |->
          IF (i - 1) \in hit /\ Row(i - 1).st # "nodata" THEN "absent" ELSE d[i]]

\* end_index = len(df_filtered); if limit: end_index = min(start_index + limit, end_index)
\* (a limit of None or 0 is falsy)
end_index(n, start, lim) ==
    IF lim # {} /\ lim # {0}
    THEN Min(start + (CHOOSE x \in lim : TRUE), n)
    ELSE n

\* df_filtered.iloc[start_index:end_index]
iloc(df_filtered, start, end) ==
    IF start >= end THEN << >> ELSE SubSeq(df_filtered, start + 1, end)

----------------------------------------------------------------------------
(* HTTP *)

\* What the server does to one request: `fails` responses with a status of the
\* force list (or broken connections) in a row, then `final`.
Finals == {"ok", "neterr", "http4xx", "badjsonp"}
Nets == [fails : 0..(RetryTotal + 1), final : Finals]

\* an adapter that sends again for as long as the server fails
session_get_unbounded(net) ==
    [sent |-> net.fails + 1, outcome |-> net.final]

\* session.get through HTTPAdapter(max_retries=Retry(total=3, status_forcelist=...)):
\* the adapter sends again after a retriable failure until `total` is used up,
\* and then gives up with an error.
session_get(net) ==
    [sent |-> Min(net.fails, RetryTotal) + 1,
     outcome |-> IF net.fails > RetryTotal THEN "retryerror" ELSE net.final]

\* requests.get without a session (SeasonScraper): no retry at all.
requests_get(net) ==
    [sent |-> 1,
     outcome |-> IF net.fails > 0 THEN "http5xx" ELSE net.final]

NoDelta == [exitosos |-> 0, saltados |-> 0, fallos |-> 0]

Returned(res, d, io, sent, delta) ==
    [result |-> res, disk |-> d, io |-> io, sent |-> sent, delta |-> delta]

----------------------------------------------------------------------------
(* The per-row downloads *)

\* save_fixture_json without its test for an existing file
save_fixture_json_noskip(l, skip, net, d) ==
    IF Row(l).st = "nodata" THEN Returned(FALSE, d, << >>, 0, NoDelta)
    ELSE IF Row(l).st = "nodir" THEN Returned(FALSE, d, << >>, 0, NoDelta)
    ELSE LET r == session_get(net) IN
         IF r.outcome = "ok"
         THEN Returned(TRUE, [d EXCEPT ![l + 1] = "new"],
                       <<Req(l), Sleep(l)>>, r.sent, NoDelta)
         ELSE Returned(FALSE, d, <<Req(l)>>, r.sent, NoDelta)

\* FixtureScraper.save_fixture_json
save_fixture_json(l, skip, net, d) ==
    IF Row(l).st = "nodata" THEN Returned(FALSE, d, << >>, 0, NoDelta)
    ELSE IF Row(l).st = "nodir" THEN Returned(FALSE, d, << >>, 0, NoDelta)
    ELSE IF skip /\ Exists(d, l) THEN Returned(TRUE, d, << >>, 0, NoDelta)
    ELSE LET r == session_get(net) IN
         IF r.outcome = "ok"
         THEN Returned(TRUE, [d EXCEPT ![l + 1] = "new"],
                       <<Req(l), Sleep(l)>>, r.sent, NoDelta)
         ELSE Returned(FALSE, d, <<Req(l)>>, r.sent, NoDelta)

\* StandingsScraper.save_standings_json
save_standings_json(l, skip, net, d) ==
    IF Row(l).st = "nodata" THEN Returned(FALSE, d, << >>, 0, NoDelta)
    ELSE IF Row(l).st = "nodir" THEN Returned(FALSE, d, << >>, 0, NoDelta)
    ELSE IF skip /\ Exists(d, l)
         THEN Returned(TRUE, d, << >>, 0, [NoDelta EXCEPT !.saltados = 1])
    ELSE LET r == session_get(net) IN
         IF r.outcome = "ok"
         THEN Returned(TRUE, [d EXCEPT ![l + 1] = "new"],
                       <<Req(l), Sleep(l)>>, r.sent, [NoDelta EXCEPT !.exitosos = 1])
         ELSE Returned(FALSE, d, <<Req(l)>>, r.sent, [NoDelta EXCEPT !.fallos = 1])

\* a download that opens its file for writing before it sends the request
descargar_evento_partido_open_first(l, skip, net, d) ==
    IF Row(l).st = "nodata" THEN Returned(FALSE, d, << >>, 0, NoDelta)
    ELSE IF skip /\ Exists(d, l)
         THEN Returned(TRUE, d, << >>, 0, [NoDelta EXCEPT !.saltados = 1])
    ELSE LET r == session_get(net) IN
         IF r.outcome = "ok"
         THEN Returned(TRUE, [d EXCEPT ![l + 1] = "new"],
                       <<Req(l), Sleep(l)>>, r.sent, [NoDelta EXCEPT !.exitosos = 1])
         ELSE Returned(FALSE, [d EXCEPT ![l + 1] = "partial"],
                       <<Req(l)>>, r.sent, [NoDelta EXCEPT !.fallos = 1])

\* MatchEventScraper.descargar_evento_partido (MatchStatsScraper.descargar_stats_partido
\* is the same code): the directory is created, never required.
descargar_evento_partido(l, skip, net, d) ==
    IF Row(l).st = "nodata" THEN Returned(FALSE, d, << >>, 0, NoDelta)
    ELSE IF skip /\ Exists(d, l)
         THEN Returned(TRUE, d, << >>, 0, [NoDelta EXCEPT !.saltados = 1])
    ELSE LET r == session_get(net) IN
         IF r.outcome = "ok"
         THEN Returned(TRUE, [d EXCEPT ![l + 1] = "new"],
                       <<Req(l), Sleep(l)>>, r.sent, [NoDelta EXCEPT !.exitosos = 1])
         ELSE Returned(FALSE, d, <<Req(l)>>, r.sent, [NoDelta EXCEPT !.fallos = 1])

download_row(k, l, skip, net, d) ==
    CASE k = "fixture" -> save_fixture_json(l, skip, net, d)
      [] k = "standings" -> save_standings_json(l, skip, net, d)
      [] OTHER -> descargar_evento_partido(l, skip, net, d)

\* The counting of FixtureScraper.process_seasons, which looks at the disk
\* after the row was handled.
count_fixture(st, r, l, skip) ==
    IF r.result
    THEN IF skip /\ Exists(r.disk, l)
         THEN [st EXCEPT !.procesados = @ + 1, !.saltados = @ + 1]
         ELSE [st EXCEPT !.procesados = @ + 1, !.exitosos = @ + 1]
    ELSE [st EXCEPT !.procesados = @ + 1, !.fallos = @ + 1]

\* The counting of the other loops: the per-row download moved its own
\* counter (or none), the loop adds one to procesados.
count_scraper(st, r) ==
    [procesados |-> st.procesados + 1,
     exitosos |-> st.exitosos + r.delta.exitosos,
     saltados |-> st.saltados + r.delta.saltados,
     fallos |-> st.fallos + r.delta.fallos]

count_row(k, st, r, l, skip) ==
    IF k = "fixture" THEN count_fixture(st, r, l, skip) ELSE count_scraper(st, r)

\* SeasonScraper.get_seasons_from_competition: sleep, GET, parse; every failure
\* is caught and gives no seasons.  A competition page without season selector
\* ("nodata") gives none either.
get_seasons_from_competition(l, net) ==
    LET r == requests_get(net) IN
    [seasons |-> IF r.outcome = "ok" /\ Row(l).st # "nodata" THEN <<l>> ELSE << >>,
     io |-> <<Sleep(l), Req(l)>>,
     sent |-> r.sent]

----------------------------------------------------------------------------
(* The bulk runs *)

\* the variables a default bulk run leaves alone
pageVars == <<page, page_pc, selected, squads_file, playersbio_dir, messages, reads>>

\* what the scrapers never touch
nameVars == <<name_arg, clean_name>>

bioVars == <<bio_squads, bio_files, bio>>

idleVars == <<pageVars, nameVars, bioVars>>

sideVars == <<data_dir_arg, data_tree, idleVars>>

pureVars == <<season_row, paths, content, unwrapped, sideVars>>

\* A scraper built with the default data_dir
PageIdle ==
    /\ page = "none"
    /\ page_pc = "none"
    /\ selected = 0
    /\ squads_file = "absent"
    /\ playersbio_dir = "absent"
    /\ messages = << >>
    /\ reads = {}

NameIdle ==
    /\ name_arg = [none |-> TRUE, str |-> << >>]
    /\ clean_name = << >>

BioIdle ==
    /\ bio_squads = << >>
    /\ bio_files = << >>
    /\ bio = [pc |-> "none"]

SideIdle ==
    /\ data_dir_arg = "data"
    /\ data_tree = << >>
    /\ PageIdle
    /\ NameIdle
    /\ BioIdle

Limits == {{}} \cup {{n} : n \in 0..MaxBatch}

\* The state before a call: a table and the files earlier runs left.  Only a
\* row with its data and its directory can have a file.
NoCall ==
    /\ disk0 = disk
    /\ kind = "none"
    /\ filters = {}
    /\ smart = FALSE
    /\ restart_from_zero = FALSE
    /\ skip_existing = TRUE
    /\ start_index = 0
    /\ limit = {}
    /\ to_process = << >>
    /\ pos = 0
    /\ stats = ZeroStats
    /\ attempted = << >>
    /\ log = << >>
    /\ attempts = 0
    /\ result = FALSE
    /\ pc = "idle"
    /\ ret = "none"
    /\ interrupted = FALSE
    /\ all_seasons = << >>
    /\ save_csv = FALSE
    /\ csv = << >>

Init ==
    /\ table \in [1..MaxRows -> Rows]
    /\ disk \in [1..MaxRows -> {"absent", "old"}]
    /\ \A i \in 1..MaxRows : disk[i] = "old" => table[i].st = "ok"
    /\ NoCall
    /\ season_row = << >>
    /\ paths = << >>
    /\ content = << >>
    /\ unwrapped = << >>
    /\ SideIdle

\* The statistics smart_download_* returns when it finds nothing to do.
all_done_stats(k, df_filtered, d) ==
    LET n == Len(df_filtered)
        existing_count == Cardinality({i \in 1..n :
                              Row(df_filtered[i]).st # "nodata" /\ Exists(d, df_filtered[i])})
    IN IF k = "fixture"
       THEN [procesados |-> n, exitosos |-> existing_count,
             saltados |-> existing_count, fallos |-> n - existing_count]
       ELSE [procesados |-> n, exitosos |-> n, saltados |-> n, fallos |-> 0]

\* process_seasons / descargar_eventos_masivo up to the loop: the statistics
\* are reset and the range is cut out of the filtered table.
EnterLoop(k, f, skip, start, lim, d) ==
    LET df_filtered == apply_filters(table, f) IN
    /\ kind' = k
    /\ filters' = f
    /\ skip_existing' = skip
    /\ start_index' = start
    /\ limit' = lim
    /\ disk' = d
    /\ to_process' = iloc(df_filtered, start, end_index(Len(df_filtered), start, lim))
    /\ stats' = ZeroStats
    /\ pc' = "loop"
    /\ UNCHANGED <<table, disk0, pos, attempted, log, attempts, result, ret,
                   interrupted, all_seasons, save_csv, csv>>

\* The restart branch of smart_download_standings builds its paths under the
\* literal 'data', whatever data_dir the StandingsScraper was given; the
\* fixture and match-event versions ask the scraper for the path.
removes_under_data(k) == k = "standings" /\ data_dir_arg = "other"

\* smart_download_fixtures / smart_download_standings / smart_download_events
\* (smart_download_stats is the same code as the last).
smart_download(k, f, restart, batch_size) ==
    LET df_filtered == apply_filters(table, f) IN
    /\ pc = "idle"
    /\ smart' = TRUE
    /\ restart_from_zero' = restart
    /\ IF restart
       THEN IF removes_under_data(k)
            THEN /\ data_tree' = RemoveFiltered(data_tree, f)
                 /\ EnterLoop(k, f, FALSE, 0, {batch_size}, disk)
            ELSE /\ data_tree' = data_tree
                 /\ EnterLoop(k, f, FALSE, 0, {batch_size}, RemoveFiltered(disk, f))
       ELSE LET start == find_resume_index(k, disk, f) IN
            IF start >= Len(df_filtered)
            THEN /\ data_tree' = data_tree
                 /\ kind' = k
                 /\ filters' = f
                 /\ start_index' = start
                 /\ stats' = all_done_stats(k, df_filtered, disk)
                 /\ pc' = "done"
                 /\ ret' = "alldone"
                 /\ UNCHANGED <<table, disk, disk0, skip_existing, limit, to_process,
                                pos, attempted, log, attempts, result, interrupted,
                                all_seasons, save_csv, csv>>
            ELSE /\ data_tree' = data_tree
                 /\ EnterLoop(k, f, TRUE, start, {batch_size}, disk)

StartSmart ==
    \E k \in {"fixture", "standings", "events"}, f \in Filters,
       restart \in BOOLEAN, batch_size \in 1..MaxBatch :
        /\ smart_download(k, f, restart, batch_size)
        /\ UNCHANGED <<season_row, paths, content, unwrapped, data_dir_arg, idleVars>>

\* download_fixtures_by_filters, download_standings_by_filters,
\* download_match_events: the loop called with the caller's range.
StartBulk ==
    \E k \in {"fixture", "standings", "events"}, f \in Filters,
       skip \in BOOLEAN, start \in 0..MaxRows, lim \in Limits :
        /\ pc = "idle"
        /\ smart' = FALSE
        /\ restart_from_zero' = FALSE
        /\ EnterLoop(k, f, skip, start, lim, disk)
        /\ UNCHANGED pureVars

\* scrape_all_seasons, called by its caller (smart = FALSE) or by
\* get_seasons_simple (start 0, no limit).  Season scraping has no per-row file.
StartSeasons ==
    \E simple \in BOOLEAN, save \in BOOLEAN, start \in 0..MaxRows, lim \in Limits :
        /\ pc = "idle"
        /\ \A i \in 1..MaxRows : disk[i] = "absent"
        /\ simple => (start = 0 /\ lim = {})
        /\ ~simple => ~save
        /\ smart' = simple
        /\ save_csv' = save
        /\ kind' = "seasons"
        /\ start_index' = start
        /\ limit' = lim
        /\ to_process' = iloc(Labels(table), start, end_index(Len(table), start, lim))
        /\ pc' = "loop"
        /\ UNCHANGED <<table, disk, disk0, filters, restart_from_zero, skip_existing,
                       pos, stats, attempted, log, attempts, result, ret,
                       interrupted, all_seasons, csv>>
        /\ UNCHANGED pureVars

----------------------------------------------------------------------------
(* The loops *)

Downloading == kind \in {"fixture", "standings", "events"}

CurRow == to_process[pos + 1]

OkNet == [fails |-> 0, final |-> "ok"]

\* get_seasons_simple after scrape_all_seasons has returned the table:
\* the CSV is written when asked for and the table is not empty.
save_seasons_csv(df_seasons) ==
    IF smart /\ save_csv /\ df_seasons # << >> THEN df_seasons ELSE csv

\* a loop that gives up at the first row that fails
loop_step_break(l, r) ==
    /\ disk' = r.disk
    /\ log' = log \o r.io
    /\ attempts' = IF r.sent > 0 THEN r.sent ELSE attempts
    /\ result' = r.result
    /\ stats' = count_row(kind, stats, r, l, skip_existing)
    /\ attempted' = Append(attempted, l)
    /\ pos' = pos + 1
    /\ pc' = IF r.result THEN "loop" ELSE "done"
    /\ ret' = IF r.result THEN ret ELSE "raised"
    /\ UNCHANGED interrupted

\* The loop, once the per-row download has returned `r` for row l: the
\* counters move and the loop goes on to the next row whatever r.result is.
loop_step(l, r) ==
    /\ disk' = r.disk
    /\ log' = log \o r.io
    /\ attempts' = IF r.sent > 0 THEN r.sent ELSE attempts
    /\ result' = r.result
    /\ stats' = count_row(kind, stats, r, l, skip_existing)
    /\ attempted' = Append(attempted, l)
    /\ pos' = pos + 1
    /\ pc' = "loop"
    /\ UNCHANGED <<ret, interrupted>>

\* One iteration of the for loop of process_seasons / descargar_eventos_masivo.
ProcessRow ==
    /\ pc = "loop"
    /\ Downloading
    /\ pos < Len(to_process)
    /\ \E net \in Nets :
         loop_step(CurRow, download_row(kind, CurRow, skip_existing, net, disk))
    /\ UNCHANGED <<table, disk0, kind, filters, smart, restart_from_zero,
                   skip_existing, start_index, limit, to_process,
                   all_seasons, save_csv, csv>>
    /\ UNCHANGED pureVars

\* One iteration of the for loop of scrape_all_seasons: the seasons found are
\* added, and a sleep follows unless this was the last competition.
ProcessCompetition ==
    /\ pc = "loop"
    /\ kind = "seasons"
    /\ pos < Len(to_process)
    /\ \E net \in Nets :
         LET g == get_seasons_from_competition(CurRow, net) IN
         /\ all_seasons' = all_seasons \o g.seasons
         /\ log' = log \o g.io \o
                   (IF pos < Len(to_process) - 1 THEN <<Sleep(CurRow)>> ELSE << >>)
         /\ attempts' = g.sent
    /\ attempted' = Append(attempted, CurRow)
    /\ pos' = pos + 1
    /\ UNCHANGED <<table, disk, disk0, kind, filters, smart, restart_from_zero,
                   skip_existing, start_index, limit, to_process, stats, result,
                   pc, ret, interrupted, save_csv, csv>>
    /\ UNCHANGED pureVars

\* The loop is over: the statistics (the table, for seasons) are returned.
Finish ==
    /\ pc = "loop"
    /\ pos = Len(to_process)
    /\ pc' = "done"
    /\ ret' = IF Downloading THEN "stats" ELSE "table"
    /\ csv' = IF Downloading THEN csv ELSE save_seasons_csv(all_seasons)
    /\ UNCHANGED <<table, disk, disk0, kind, filters, smart, restart_from_zero,
                   skip_existing, start_index, limit, to_process, pos, stats,
                   attempted, log, attempts, result, interrupted, all_seasons,
                   save_csv>>
    /\ UNCHANGED pureVars

\* Where a KeyboardInterrupt can reach a row that is being downloaded: before
\* the download is called, while the request is out, while the file is being
\* written, or in the sleep that follows the write.
Points == {"body", "request", "write", "sleep"}

\* What the row has done by the time the interrupt arrives at point p.  The
\* per-row downloads catch Exception only, so the interrupt leaves them at once.
interrupted_row(k, l, skip, d, p) ==
    LET r == download_row(k, l, skip, OkNet, d) IN
    CASE p = "request" -> [disk |-> d, io |-> <<Req(l)>>, delta |-> NoDelta]
      [] p = "write" -> [disk |-> [d EXCEPT ![l + 1] = "partial"],
                         io |-> <<Req(l)>>, delta |-> NoDelta]
      [] p = "sleep" -> [disk |-> r.disk, io |-> r.io, delta |-> r.delta]
      [] OTHER -> [disk |-> d, io |-> << >>, delta |-> NoDelta]

\* except KeyboardInterrupt: break, inside the for body of the download loops:
\* the loop is left and the statistics are returned.
InterruptInRow ==
    /\ pc = "loop"
    /\ Downloading
    /\ pos < Len(to_process)
    /\ \E p \in Points :
         LET r == interrupted_row(kind, CurRow, skip_existing, disk, p) IN
         /\ p # "body" => download_row(kind, CurRow, skip_existing, OkNet, disk).io # << >>
         /\ disk' = r.disk
         /\ log' = log \o r.io
         /\ stats' = [stats EXCEPT !.exitosos = @ + r.delta.exitosos]
         /\ attempted' = IF p = "body" THEN attempted ELSE Append(attempted, CurRow)
    /\ interrupted' = TRUE
    /\ pc' = "done"
    /\ ret' = "stats"
    /\ UNCHANGED <<table, disk0, kind, filters, smart, restart_from_zero,
                   skip_existing, start_index, limit, to_process, pos, attempts,
                   result, all_seasons, save_csv, csv>>
    /\ UNCHANGED pureVars

\* A KeyboardInterrupt while the for statement fetches the next row: in the
\* download loops this is outside the try of the body, and the enclosing
\* handlers catch Exception only, so the interrupt leaves the call.
InterruptAtFor ==
    /\ pc = "loop"
    /\ Downloading
    /\ interrupted' = TRUE
    /\ pc' = "done"
    /\ ret' = "raised"
    /\ UNCHANGED <<table, disk, disk0, kind, filters, smart, restart_from_zero,
                   skip_existing, start_index, limit, to_process, pos, stats,
                   attempted, log, attempts, result, all_seasons, save_csv, csv>>
    /\ UNCHANGED pureVars

\* scrape_all_seasons has its try around the whole loop: an interrupt anywhere
\* in it returns the seasons collected so far, and get_seasons_simple goes on
\* to save them.
InterruptSeasons ==
    /\ pc = "loop"
    /\ kind = "seasons"
    /\ \E p \in {"body", "request"} :
         /\ p = "request" => pos < Len(to_process)
         /\ log' = IF p = "request" THEN log \o <<Sleep(CurRow), Req(CurRow)>> ELSE log
         /\ attempted' = IF p = "request" THEN Append(attempted, CurRow) ELSE attempted
    /\ interrupted' = TRUE
    /\ pc' = "done"
    /\ ret' = "table"
    /\ csv' = save_seasons_csv(all_seasons)
    /\ UNCHANGED <<table, disk, disk0, kind, filters, smart, restart_from_zero,
                   skip_existing, start_index, limit, to_process, pos, stats,
                   attempts, result, all_seasons, save_csv>>
    /\ UNCHANGED pureVars

Next ==
    \/ StartSmart
    \/ StartBulk
    \/ StartSeasons
    \/ ProcessRow
    \/ ProcessCompetition
    \/ Finish
    \/ InterruptInRow
    \/ InterruptAtFor
    \/ InterruptSeasons

Spec == Init /\ [][Next]_vars

----------------------------------------------------------------------------
(* JSONP unwrap.  A text is a sequence of characters. *)

\* str.find(c): index (from 0) of the first c, -1 when there is none
find(str, c) ==
    IF \E i \in 1..Len(str) : str[i] = c
    THEN (CHOOSE i \in 1..Len(str) :
            str[i] = c /\ \A j \in 1..(i - 1) : str[j] # c) - 1
    ELSE -1

\* str.rfind(c): index (from 0) of the last c, -1 when there is none
rfind(str, c) ==
    IF \E i \in 1..Len(str) : str[i] = c
    THEN (CHOOSE i \in 1..Len(str) :
            str[i] = c /\ \A j \in (i + 1)..Len(str) : str[j] # c) - 1
    ELSE -1

\* str[a:b] for 0 <= a
slice(str, a, b) == IF b <= a THEN << >> ELSE SubSeq(str, a + 1, Min(b, Len(str)))

Rejected == [ok |-> FALSE, text |-> << >>]

\* an unwrap that stops at the first ')' instead of the last
obtener_fixture_json_first_close(text) ==
    LET json_start == find(text, "(") + 1
        json_end == find(text, ")")
    IN IF json_start <= 0 \/ json_end <= json_start
       THEN Rejected
       ELSE [ok |-> TRUE, text |-> slice(text, json_start, json_end)]

\* FixtureScraper.obtener_fixture_json, the unwrap of the response text
\* (the standings and player-bio scrapers repeat it).
obtener_fixture_json(text) ==
    LET json_start == find(text, "(") + 1
        json_end == rfind(text, ")")
    IN IF json_start <= 0 \/ json_end <= json_start
       THEN Rejected
       ELSE [ok |-> TRUE, text |-> slice(text, json_start, json_end)]

\* MatchEventScraper._extract_json_from_jsonp
extract_json_from_jsonp(text) ==
    LET inicio_json == find(text, "(") + 1
        final_json == rfind(text, ")")
    IN IF inicio_json <= 0 \/ final_json <= 0 \/ inicio_json >= final_json
       THEN Rejected
       ELSE [ok |-> TRUE, text |-> slice(text, inicio_json, final_json)]

JsonpChars == {"(", ")", "j"}

Responses == UNION {[1..n -> JsonpChars] : n \in 0..MaxRespLen}

InitJsonp ==
    /\ table = << >>
    /\ disk = << >>
    /\ NoCall
    /\ season_row = << >>
    /\ paths = << >>
    /\ content \in Responses
    /\ unwrapped = << >>
    /\ SideIdle

\* The response text goes through both unwrap routines.
Unwrap ==
    /\ unwrapped = << >>
    /\ unwrapped' = <<[fixture |-> obtener_fixture_json(content),
                       event |-> extract_json_from_jsonp(content)]>>
    /\ UNCHANGED <<season_row, paths, content, sideVars>>
    /\ UNCHANGED runVars

NextJsonp == Unwrap

SpecJsonp == InitJsonp /\ [][NextJsonp]_vars

----------------------------------------------------------------------------
(* Directory naming.  A name is a sequence of characters. *)

\* problematic_chars of sanitize_dir_name
problematic_chars == {"/", "\\", "*", "?", "\"", "<", ">", "|", ":"}

\* str.replace(old, '_') for every old in chars
replace_chars(name, chars) ==
    [i \in 1..Len(name) |-> IF name[i] \in chars THEN "_" ELSE name[i]]

\* str.strip()
RECURSIVE lstrip(_)
lstrip(name) ==
    IF name # << >> /\ Head(name) = " " THEN lstrip(Tail(name)) ELSE name

RECURSIVE rstrip(_)
rstrip(name) ==
    IF name # << >> /\ name[Len(name)] = " "
    THEN rstrip(SubSeq(name, 1, Len(name) - 1))
    ELSE name

strip(name) == rstrip(lstrip(name))

\* re.sub(r'_+', '_', name)
RECURSIVE squeeze(_)
squeeze(name) ==
    IF Len(name) < 2 THEN name
    ELSE IF name[1] = "_" /\ name[2] = "_" THEN squeeze(Tail(name))
    ELSE <<name[1]>> \o squeeze(Tail(name))

\* utils_common.sanitize_dir_name, for a name that is not None
sanitize_dir_name(name) == squeeze(strip(replace_chars(name, problematic_chars)))

\* os.path.join(a, b)
join2(a, b) ==
    IF b # << >> /\ Head(b) = "/" THEN b
    ELSE IF a = << >> \/ a[Len(a)] = "/" THEN a \o b
    ELSE a \o <<"/">> \o b

\* os.path.join(parts[1], parts[2], ...)
RECURSIVE join(_)
join(parts) ==
    IF Len(parts) = 1 THEN parts[1]
    ELSE join(<<join2(parts[1], parts[2])>> \o SubSeq(parts, 3, Len(parts)))

data_dir == <<"d", "a", "t", "a">>
fixture_json == <<"f", "i", "x", "t", "u", "r", "e", ".", "j", "s", "o", "n">>

\* f"{competicion}_{row['id_competicion']}"
with_id(competicion, id) == competicion \o <<"_">> \o id

\* FixtureScraper.save_fixture_json / _get_json_path: only '/' is replaced in
\* the three names, the season name is used as extracted.
fixture_scraper_dir(row) ==
    join(<<data_dir,
           replace_chars(row.continente, {"/"}),
           replace_chars(row.pais, {"/"}),
           with_id(replace_chars(row.competicion, {"/"}), row.id_competicion),
           row.season_name>>)

fixture_scraper_path(row) == join(<<fixture_scraper_dir(row), fixture_json>>)

\* SeasonScraper.create_seasons_directory_structure: the three names and the
\* season name all go through sanitize_dir_name.
ruta_temporada(row) ==
    join(<<data_dir,
           sanitize_dir_name(row.continente),
           sanitize_dir_name(row.pais),
           with_id(sanitize_dir_name(row.competicion), row.id_competicion),
           sanitize_dir_name(row.season_name)>>)

\* FixtureProcessor._get_fixture_path: the three names are sanitized, the
\* season name is used as extracted.
get_fixture_path(row) ==
    join(<<join(<<data_dir,
                  sanitize_dir_name(row.continente),
                  sanitize_dir_name(row.pais),
                  with_id(sanitize_dir_name(row.competicion), row.id_competicion),
                  row.season_name>>),
           fixture_json>>)

NameChars == {"a", "/", ":", " "}

\* get_season_name_from_url returns one segment of the URL's path, split at '/'
SeasonNameChars == NameChars \ {"/"}

Names(chars, n) == [1..n -> chars]

\* Season rows whose four names are not empty and hold MaxNameLen + 2
\* characters at most between them.
SeasonRows ==
    UNION {[continente : Names(NameChars, n[1]), pais : Names(NameChars, n[2]),
            competicion : Names(NameChars, n[3]),
            season_name : Names(SeasonNameChars, n[4]),
            id_competicion : {<<"7">>}] :
           n \in {m \in [1..4 -> 1..MaxNameLen] :
                    m[1] + m[2] + m[3] + m[4] <= MaxNameLen + 2}}

InitPath ==
    /\ table = << >>
    /\ disk = << >>
    /\ NoCall
    /\ season_row \in SeasonRows
    /\ paths = << >>
    /\ content = << >>
    /\ unwrapped = << >>
    /\ SideIdle

\* The three places that name the season directory of season_row.
ComputePaths ==
    /\ paths = << >>
    /\ paths' = <<[scraper_dir |-> fixture_scraper_dir(season_row),
                   scraper_file |-> fixture_scraper_path(season_row),
                   created_dir |-> ruta_temporada(season_row),
                   processor_file |-> get_fixture_path(season_row)]>>
    /\ UNCHANGED <<season_row, content, unwrapped, sideVars>>
    /\ UNCHANGED runVars

NextPath == ComputePaths

SpecPath == InitPath /\ [][NextPath]_vars

----------------------------------------------------------------------------
(* Restart from zero, with a scraper built for any data directory *)

InitRestart ==
    /\ table \in [1..MaxRows -> Rows]
    /\ disk \in [1..MaxRows -> {"absent", "old"}]
    /\ \A i \in 1..MaxRows : disk[i] = "old" => table[i].st = "ok"
    /\ NoCall
    /\ season_row = << >>
    /\ paths = << >>
    /\ content = << >>
    /\ unwrapped = << >>
    /\ data_dir_arg \in {"data", "other"}
    /\ data_tree \in IF data_dir_arg = "other"
                     THEN [1..MaxRows -> {"absent", "old"}]
                     ELSE {<< >>}
    /\ PageIdle
    /\ NameIdle
    /\ BioIdle

\* smart_download_*(..., restart_from_zero=True, batch_size=...)
StartRestart ==
    \E k \in {"fixture", "standings", "events"}, f \in Filters,
       batch_size \in 1..MaxBatch :
        /\ k = "fixture" => data_dir_arg = "data"
        /\ smart_download(k, f, TRUE, batch_size)
        /\ UNCHANGED <<season_row, paths, content, unwrapped, data_dir_arg, idleVars>>

NextRestart ==
    \/ StartRestart
    \/ ProcessRow
    \/ Finish
    \/ InterruptInRow
    \/ InterruptAtFor

SpecRestart == InitRestart /\ [][NextRestart]_vars

----------------------------------------------------------------------------
(* The Clubes and Jugadores pages, down to the first use of the squads *)

Selectors == 4

\* squads.json: missing, without the "squad" key, with an empty list, with teams
SquadsFiles == {"absent", "nokey", "empty", "ok"}

\* the playersbio folder: missing, without a file of a player who played, with such files
PlayersbioDirs == {"absent", "empty", "files"}

\* everything but the page
NoScraping ==
    /\ table = << >>
    /\ disk = << >>
    /\ NoCall
    /\ season_row = << >>
    /\ paths = << >>
    /\ content = << >>
    /\ unwrapped = << >>
    /\ data_dir_arg = "data"
    /\ data_tree = << >>

\* A selectbox has a value as soon as its directory has an entry, so the
\* selectors are set from the left; the files of a season can be there only
\* when the season is.
InitPage ==
    /\ NoScraping
    /\ page \in {"clubes", "jugadores"}
    /\ page_pc = "selectors"
    /\ selected \in 0..Selectors
    /\ squads_file \in SquadsFiles
    /\ playersbio_dir \in PlayersbioDirs
    /\ selected < Selectors => (squads_file = "absent" /\ playersbio_dir = "absent")
    /\ messages = << >>
    /\ reads = {}
    /\ NameIdle
    /\ BioIdle

scrapingVars == <<runVars, season_row, paths, content, unwrapped, data_dir_arg, data_tree,
                  nameVars, bioVars>>

\* a warning that forgets st.stop()
check_squads_no_stop(file, next) ==
    IF file = "absent"
    THEN [shown |-> <<"warning">>, pc |-> next]
    ELSE [shown |-> << >>, pc |-> next]

\* if not squad_path.exists(): st.warning(...); st.stop()
check_squads(file, next) ==
    IF file = "absent"
    THEN [shown |-> <<"warning">>, pc |-> "stopped"]
    ELSE [shown |-> << >>, pc |-> next]

\* if not all([continente, pais, competicion, temporada]): st.info(...); st.stop()
ValidateSelection ==
    /\ page_pc = "selectors"
    /\ IF selected < Selectors
       THEN /\ messages' = Append(messages, "info")
            /\ page_pc' = "stopped"
       ELSE /\ messages' = messages
            /\ page_pc' = "squads"
    /\ UNCHANGED <<page, selected, squads_file, playersbio_dir, reads>>
    /\ UNCHANGED scrapingVars

CheckSquads ==
    /\ page_pc = "squads"
    /\ LET c == check_squads(squads_file, IF page = "clubes" THEN "playersbio" ELSE "load")
       IN /\ messages' = messages \o c.shown
          /\ page_pc' = c.pc
    /\ UNCHANGED <<page, selected, squads_file, playersbio_dir, reads>>
    /\ UNCHANGED scrapingVars

\* Clubes only: if not playersbio_base_path.exists(): st.warning(...); st.stop()
CheckPlayersbio ==
    /\ page_pc = "playersbio"
    /\ IF playersbio_dir # "absent"
       THEN /\ messages' = messages
            /\ page_pc' = "load"
       ELSE /\ messages' = Append(messages, "warning")
            /\ page_pc' = "stopped"
    /\ UNCHANGED <<page, selected, squads_file, playersbio_dir, reads>>
    /\ UNCHANGED scrapingVars

\* squad_data = load_json(squad_path) and the test that follows it: Clubes
\* wants the "squad" key, Jugadores a list that is not empty.
LoadSquads ==
    /\ page_pc = "load"
    /\ reads' = reads \cup {"squads.json"}
    /\ IF page = "clubes"
       THEN IF squads_file = "nokey"
            THEN /\ messages' = Append(messages, "error")
                 /\ page_pc' = "stopped"
            ELSE /\ messages' = messages
                 /\ page_pc' = "sections"
       ELSE IF squads_file \in {"nokey", "empty"}
            THEN /\ messages' = Append(messages, "warning")
                 /\ page_pc' = "stopped"
            ELSE /\ messages' = messages
                 /\ page_pc' = "sections"
    /\ UNCHANGED <<page, selected, squads_file, playersbio_dir>>
    /\ UNCHANGED scrapingVars

\* Clubes: the team selector and the squad list.  next() finds no team in an
\* empty squad list and raises; the minutes of every player are read from the
\* playersbio files, and without a player who played the page stops.
ClubSquad ==
    /\ page = "clubes"
    /\ page_pc = "sections"
    /\ IF squads_file = "empty"
       THEN /\ page_pc' = "raised"
            /\ UNCHANGED <<messages, reads>>
       ELSE IF playersbio_dir = "files"
            THEN /\ reads' = reads \cup {"playersbio"}
                 /\ messages' = messages
                 /\ page_pc' = "kpis"
            ELSE /\ reads' = reads
                 /\ messages' = Append(messages, "warning")
                 /\ page_pc' = "stopped"
    /\ UNCHANGED <<page, selected, squads_file, playersbio_dir>>
    /\ UNCHANGED scrapingVars

\* Clubes: the header and the sections below it read standings.json and the
\* season statistics when they are there.
ClubSections ==
    /\ page = "clubes"
    /\ page_pc = "kpis"
    /\ \E found \in SUBSET {"standings.json", "seasonstats"} :
         reads' = reads \cup found
    /\ page_pc' = "end"
    /\ UNCHANGED <<page, selected, squads_file, playersbio_dir, messages>>
    /\ UNCHANGED scrapingVars

\* Jugadores: the team and player selectors; the player selector starts at
\* its placeholder, and the script stops there until a player is picked.
PlayerSelector ==
    /\ page = "jugadores"
    /\ page_pc = "sections"
    /\ \E picked \in BOOLEAN :
         page_pc' = IF picked THEN "profile" ELSE "stopped"
    /\ UNCHANGED <<page, selected, squads_file, playersbio_dir, messages, reads>>
    /\ UNCHANGED scrapingVars

\* Jugadores: the sections of the player read the match and statistics files.
PlayerSections ==
    /\ page = "jugadores"
    /\ page_pc = "profile"
    /\ \E found \in SUBSET {"playersbio", "seasonstats", "matches"} :
         reads' = reads \cup found
    /\ page_pc' = "end"
    /\ UNCHANGED <<page, selected, squads_file, playersbio_dir, messages>>
    /\ UNCHANGED scrapingVars

NextPage ==
    \/ ValidateSelection
    \/ CheckSquads
    \/ CheckPlayersbio
    \/ LoadSquads
    \/ ClubSquad
    \/ ClubSections
    \/ PlayerSelector
    \/ PlayerSections

SpecPage == InitPage /\ [][NextPage]_vars

----------------------------------------------------------------------------
(* sanitize_dir_name on its own *)

unnamed == <<"u", "n", "n", "a", "m", "e", "d">>

\* sanitize_dir_name(name): None gives "unnamed", anything else is cleaned
sanitize_call(arg) == IF arg.none THEN unnamed ELSE sanitize_dir_name(arg.str)

SanitizeChars == {"a", "_", " ", "/", "*"}

\* None and every string of up to MaxNameLen characters
SanitizeArgs ==
    {[none |-> TRUE, str |-> << >>]} \cup
    {[none |-> FALSE, str |-> x] : x \in UNION {[1..n -> SanitizeChars] : n \in 0..MaxNameLen}}

InitSanitize ==
    /\ NoScraping
    /\ PageIdle
    /\ name_arg \in SanitizeArgs
    /\ clean_name = << >>
    /\ BioIdle

Sanitize ==
    /\ clean_name = << >>
    /\ clean_name' = <<sanitize_call(name_arg)>>
    /\ UNCHANGED <<runVars, season_row, paths, content, unwrapped, data_dir_arg,
                   data_tree, pageVars, name_arg, bioVars>>

NextSanitize == Sanitize

SpecSanitize == InitSanitize /\ [][NextSanitize]_vars

----------------------------------------------------------------------------
(* Player biographies: a folder per season, a file per player.  The table has
   its default index and no filter is given, so labels are positions. *)

Seasons == 1..MaxRows
Players == 1..MaxPlayers

NoPlayerCounts == [exitosos |-> 0, saltados |-> 0, fallidos |-> 0]
NoSeasonCounts == [procesados |-> 0, exitos |-> 0, fallos |-> 0]

\* PlayerBioScraper() before a call
BioReady ==
    [pc |-> "idle", smart |-> FALSE, restart |-> FALSE, skip |-> TRUE, start |-> 0,
     todo |-> << >>, spos |-> 0, ppos |-> 0, pl |-> NoPlayerCounts,
     st |-> NoSeasonCounts, result |-> FALSE, ret |-> "none", interrupted |-> FALSE]

NoBios == [s \in Seasons |-> [p \in Players |-> "absent"]]

\* os.path.exists(dir_path) and os.listdir(dir_path): the folder holds a file
has_bios(files, s) == \E p \in Players : files[s][p] # "absent"

RECURSIVE BioScan(_, _)
BioScan(files, s) ==
    IF s > MaxRows THEN MaxRows
    ELSE IF ~has_bios(files, s) THEN s - 1
    ELSE BioScan(files, s + 1)

\* find_playerbio_resume_index: the first season whose playersbio folder is
\* missing or empty, len(df_filtered) when there is none
find_playerbio_resume_index(files) == BioScan(files, 1)

\* the end of save_playerbio_json: if players_exitosos > 0
season_succeeded(pl) == pl.exitosos > 0

InitBio ==
    /\ NoScraping
    /\ PageIdle
    /\ NameIdle
    /\ bio_squads \in [Seasons -> BOOLEAN]
    /\ bio_files = NoBios
    /\ bio = BioReady

notBio == <<runVars, season_row, paths, content, unwrapped, data_dir_arg, data_tree,
            pageVars, nameVars>>

\* PlayerBioScraper.process_seasons up to its loop
BioEnter(is_smart, restart, skip, start, lim) ==
    bio' = [BioReady EXCEPT
              !.pc = "season", !.smart = is_smart, !.restart = restart,
              !.skip = skip, !.start = start,
              !.todo = iloc([i \in 1..MaxRows |-> i], start,
                            end_index(MaxRows, start, lim))]

\* smart_download_player_bio
BioStartSmart ==
    /\ bio.pc = "idle"
    /\ \E restart \in BOOLEAN, batch_size \in 1..MaxBatch :
         IF restart
         THEN /\ bio_files' = NoBios
              /\ BioEnter(TRUE, TRUE, FALSE, 0, {batch_size})
         ELSE LET start == find_playerbio_resume_index(bio_files) IN
              /\ bio_files' = bio_files
              /\ IF start >= MaxRows
                 THEN bio' = [BioReady EXCEPT !.pc = "done", !.smart = TRUE,
                                              !.start = start, !.ret = "alldone"]
                 ELSE BioEnter(TRUE, FALSE, TRUE, start, {batch_size})
    /\ UNCHANGED bio_squads
    /\ UNCHANGED notBio

\* download_player_bio_by_filters
BioStartBulk ==
    /\ bio.pc = "idle"
    /\ \E skip \in BOOLEAN, start \in 0..MaxRows, lim \in Limits :
         BioEnter(FALSE, FALSE, skip, start, lim)
    /\ UNCHANGED <<bio_squads, bio_files>>
    /\ UNCHANGED notBio

BioSeason == bio.todo[bio.spos + 1]

InSeason == bio.pc = "season" /\ bio.spos < Len(bio.todo)

\* save_playerbio_json on a season without squads.json (or without players in
\* it): False is returned at once, and the loop counts the season as processed
BioNoSquads ==
    /\ InSeason
    /\ ~bio_squads[BioSeason]
    /\ bio' = [bio EXCEPT !.spos = @ + 1, !.result = FALSE, !.st.procesados = @ + 1]
    /\ UNCHANGED <<bio_squads, bio_files>>
    /\ UNCHANGED notBio

\* one turn of the player loop of save_playerbio_json
BioPlayer ==
    /\ InSeason
    /\ bio_squads[BioSeason]
    /\ bio.ppos < MaxPlayers
    /\ LET p == bio.ppos + 1 IN
       IF bio.skip /\ bio_files[BioSeason][p] # "absent"
       THEN /\ bio' = [bio EXCEPT !.ppos = @ + 1, !.pl.saltados = @ + 1]
            /\ bio_files' = bio_files
       ELSE \E net \in Nets :
              IF session_get(net).outcome = "ok"
              THEN /\ bio' = [bio EXCEPT !.ppos = @ + 1, !.pl.exitosos = @ + 1]
                   /\ bio_files' = [bio_files EXCEPT ![BioSeason][p] = "file"]
              ELSE /\ bio' = [bio EXCEPT !.ppos = @ + 1, !.pl.fallidos = @ + 1]
                   /\ bio_files' = bio_files
    /\ UNCHANGED bio_squads
    /\ UNCHANGED notBio

\* save_playerbio_json after its last player: the season counts as a success
\* or as a failure, and the loop of process_seasons goes on
BioSeasonEnd ==
    /\ InSeason
    /\ bio_squads[BioSeason]
    /\ bio.ppos = MaxPlayers
    /\ bio' = [bio EXCEPT
                 !.result = season_succeeded(bio.pl),
                 !.st.exitos = IF season_succeeded(bio.pl) THEN @ + 1 ELSE @,
                 !.st.fallos = IF season_succeeded(bio.pl) THEN @ ELSE @ + 1,
                 !.st.procesados = @ + 1,
                 !.spos = @ + 1, !.ppos = 0, !.pl = NoPlayerCounts]
    /\ UNCHANGED <<bio_squads, bio_files>>
    /\ UNCHANGED notBio

BioFinish ==
    /\ bio.pc = "season"
    /\ bio.spos = Len(bio.todo)
    /\ bio' = [bio EXCEPT !.pc = "done", !.ret = "stats"]
    /\ UNCHANGED <<bio_squads, bio_files>>
    /\ UNCHANGED notBio

\* A KeyboardInterrupt while a player is downloaded leaves save_playerbio_json
\* (which catches Exception only) and ends the loop of process_seasons; the
\* player's file is there if the write had begun.
BioInterrupt ==
    /\ InSeason
    /\ bio_squads[BioSeason]
    /\ bio.ppos < MaxPlayers
    /\ \E wrote \in BOOLEAN :
         bio_files' = IF wrote /\ ~(bio.skip /\ bio_files[BioSeason][bio.ppos + 1] # "absent")
                      THEN [bio_files EXCEPT ![BioSeason][bio.ppos + 1] = "file"]
                      ELSE bio_files
    /\ bio' = [bio EXCEPT !.pc = "done", !.ret = "stats", !.interrupted = TRUE]
    /\ UNCHANGED bio_squads
    /\ UNCHANGED notBio

\* the call has returned; the files stay for the next one
BioNewCall ==
    /\ bio.pc = "done"
    /\ bio' = BioReady
    /\ UNCHANGED <<bio_squads, bio_files>>
    /\ UNCHANGED notBio

NextBio ==
    \/ BioStartSmart
    \/ BioStartBulk
    \/ BioNoSquads
    \/ BioPlayer
    \/ BioSeasonEnd
    \/ BioFinish
    \/ BioInterrupt
    \/ BioNewCall

SpecBio == InitBio /\ [][NextBio]_vars

----------------------------------------------------------------------------
(* One smart download called again and again in resume mode, without filter,
   with the same batch_size, on the files the earlier calls left *)

AllRows == 0..(MaxRows - 1)

\* smart_download_*(df, restart_from_zero=False, batch_size=...): the scraper
\* and the batch size are those of the earlier calls
StartResume ==
    \E k \in {"fixture", "standings", "events"}, batch_size \in 1..MaxBatch :
        /\ kind \in {"none", k}
        /\ limit \in {{}, {batch_size}}
        /\ smart_download(k, AllRows, FALSE, batch_size)
        /\ limit' = {batch_size}
        /\ kind' = k
        /\ UNCHANGED <<season_row, paths, content, unwrapped, data_dir_arg, idleVars>>

\* The call has returned and the caller calls again: a new scraper, the same
\* table and arguments, the disk as the call left it.
CallAgain ==
    /\ pc = "done"
    /\ pc' = "idle"
    /\ disk0' = disk
    /\ filters' = {}
    /\ smart' = FALSE
    /\ restart_from_zero' = FALSE
    /\ skip_existing' = TRUE
    /\ start_index' = 0
    /\ to_process' = << >>
    /\ pos' = 0
    /\ stats' = ZeroStats
    /\ attempted' = << >>
    /\ log' = << >>
    /\ attempts' = 0
    /\ result' = FALSE
    /\ ret' = "none"
    /\ interrupted' = FALSE
    /\ UNCHANGED <<table, disk, kind, limit, all_seasons, save_csv, csv>>
    /\ UNCHANGED pureVars

NextResume ==
    \/ StartResume
    \/ ProcessRow
    \/ Finish
    \/ CallAgain

\* Every call returns and the caller keeps calling.
SpecResume == Init /\ [][NextResume]_vars /\ WF_vars(NextResume)

\* The same, with calls that a KeyboardInterrupt can end.
NextCrash ==
    \/ StartResume
    \/ ProcessRow
    \/ Finish
    \/ InterruptInRow
    \/ CallAgain

SpecCrash == Init /\ [][NextCrash]_vars

----------------------------------------------------------------------------
(* Properties *)

FilteredNow == apply_filters(table, filters)

\* position (from 0) of the first row of df_filtered without a file on d,
\* Len(df_filtered) when every row has one
FirstMissing(df_filtered, d) ==
    IF \E i \in 1..Len(df_filtered) : ~Exists(d, df_filtered[i])
    THEN (CHOOSE i \in 1..Len(df_filtered) :
            /\ ~Exists(d, df_filtered[i])
            /\ \A j \in 1..(i - 1) : Exists(d, df_filtered[j])) - 1
    ELSE Len(df_filtered)

\* the positions of df_filtered at which label l stands
PositionsOf(df_filtered, l) == {i \in 1..Len(df_filtered) : df_filtered[i] = l}

\* C1: in resume mode a smart fixture download starts at the first missing
\* file: once the call is over (and was not interrupted), if some row of the
\* filtered table had no fixture.json, the first row attempted is the first
\* such row in filtered-table order, and no row before it is requested.
C1_ResumeStartsAtFirstMissing ==
    (kind = "fixture" /\ smart /\ ~restart_from_zero /\ pc = "done" /\ ~interrupted) =>
        LET m == FirstMissing(FilteredNow, disk0) IN
        m < Len(FilteredNow) =>
            /\ attempted # << >>
            /\ attempted[1] = FilteredNow[m + 1]
            /\ \A i \in 1..Len(log) :
                 \A q \in PositionsOf(FilteredNow, log[i].row) : q >= m + 1

\* C2: in resume mode a smart download of standings or match events reports
\* "everything already downloaded", attempting no row, only when every row of
\* the filtered table (whose target path can be built) has its file on disk.
C2_AllDoneOnlyWhenComplete ==
    (kind \in {"standings", "events"} /\ smart /\ ~restart_from_zero /\ ret = "alldone") =>
        /\ attempted = << >>
        /\ \A i \in 1..Len(FilteredNow) :
             Row(FilteredNow[i]).st # "nodata" => Exists(disk, FilteredNow[i])

\* C3: with skip_existing True, a row whose target file exists is handled
\* without an HTTP request and without touching the disk, and its download
\* returns True.
C3_SkipExistingLeavesFile ==
    [][(pc = "loop" /\ Downloading /\ pos < Len(to_process) /\ skip_existing
          /\ Exists(disk, CurRow))
       => (log' = log /\ disk' = disk /\ (pos' = pos + 1 => result'))]_vars

\* a row was skipped because its file was there
C3_Witness ==
    /\ Downloading /\ skip_existing /\ pos = 1
    /\ Exists(disk0, attempted[1]) /\ result /\ log = << >>

\* C4: a failed row does not stop a bulk loop: while the loop runs it has
\* attempted exactly the rows of the selected range it went through, and a run
\* that was not interrupted attempts every row of the range and returns its
\* statistics (its table) instead of raising.
C4_LoopContinuesAfterFailure ==
    /\ pc = "loop" => attempted = SubSeq(to_process, 1, pos)
    /\ (pc = "done" /\ ~interrupted /\ ret # "alldone") =>
          (attempted = to_process /\ ret \in {"stats", "table"})

\* the first row's request failed and the second row was attempted all the same
C4_Witness ==
    /\ Downloading /\ pc = "done" /\ ~interrupted /\ ret = "stats"
    /\ Len(attempted) >= 2
    /\ log # << >> /\ log[1] = Req(attempted[1])
    /\ ~Exists(disk, attempted[1])

\* C5: after a bulk run of the standings or match-event scraper every
\* processed row is counted in exactly one of exitosos, saltados, fallos.
C5_CountersAddUp ==
    (kind \in {"standings", "events"} /\ pc = "done" /\ ret = "stats" /\ ~interrupted) =>
        stats.procesados = stats.exitosos + stats.saltados + stats.fallos

\* C6: the fixture scraper, the season scraper and the fixture processor name
\* the same season directory (and the same fixture.json in it) for every row.
C6_SharedDirectoryConvention ==
    paths # << >> =>
        /\ paths[1].scraper_dir = paths[1].created_dir
        /\ paths[1].scraper_file = paths[1].processor_file

\* C7: between two consecutive HTTP requests of a bulk run there is a sleep.
C7_SleepBetweenRequests ==
    \A i \in 1..(Len(log) - 1) : ~(log[i].ev = "req" /\ log[i + 1].ev = "req")

\* requests of the log that no sleep follows: the ones that failed
FailedRequests ==
    Cardinality({i \in 1..Len(log) :
        log[i].ev = "req" /\ (i = Len(log) \/ log[i + 1].ev # "sleep")})

\* C8: within one bulk run no row is attempted (or requested) twice, a request
\* is sent at most 1 + 3 times by the adapter, and a row whose request failed
\* is recorded as failed.
C8_AtMostOneAttemptPerRow ==
    /\ \A i, j \in 1..Len(attempted) : attempted[i] = attempted[j] => i = j
    /\ \A i, j \in 1..Len(log) :
         (log[i].ev = "req" /\ log[j].ev = "req" /\ log[i].row = log[j].row) => i = j
    /\ attempts <= RetryTotal + 1
    /\ (Downloading /\ ~interrupted) => stats.fallos >= FailedRequests

\* the adapter used up its retries on a row, the row counts as failed and the
\* run went on to its end
C8_Witness ==
    /\ Downloading /\ pc = "done" /\ ~interrupted
    /\ attempts = RetryTotal + 1 /\ ~result /\ stats.fallos >= 1
    /\ Len(attempted) >= 2

\* C9: a keyboard interrupt during a bulk loop is not propagated: the call
\* returns what it has (statistics, or the partial seasons table, which
\* get_seasons_simple saves), and no further row is processed.
C9_InterruptReturnsResults ==
    interrupted =>
        /\ pc = "done"
        /\ ret \in {"stats", "table"}
        /\ (kind = "seasons" /\ smart /\ save_csv /\ all_seasons # << >>)
              => csv = all_seasons

\* C10: the two JSONP unwraps accept the same responses; what an accepted
\* response yields is the text strictly between its first '(' and its last
\* ')'; a response without '(' or without ')' after its first '(' is rejected.
C10_JsonpUnwrap ==
    unwrapped # << >> =>
        LET u == unwrapped[1]
            opens == {i \in 1..Len(content) : content[i] = "("}
            closes == {i \in 1..Len(content) : content[i] = ")"}
        IN /\ u.fixture.ok = u.event.ok
           /\ u.fixture.text = u.event.text
           /\ u.fixture.ok =>
                \E i \in opens, j \in closes :
                    /\ \A k \in opens : i <= k
                    /\ \A k \in closes : k <= j
                    /\ u.fixture.text = SubSeq(content, i + 1, j - 1)
           /\ (\/ opens = {}
               \/ \A i \in opens : (\A k \in opens : i <= k) => \A j \in closes : j < i)
                => ~u.fixture.ok

\* an accepted response with two ')' and something after its first '('
C10_Witness ==
    /\ unwrapped # << >>
    /\ unwrapped[1].event.ok
    /\ Cardinality({i \in 1..Len(content) : content[i] = ")"}) >= 2
    /\ unwrapped[1].event.text # << >>

\* C11: in the statistics FixtureScraper.process_seasons returns, success is
\* the number of seasons whose fixture.json was written during the run and
\* skipped the number of seasons skipped because their file was already there.
C11_SuccessAndSkippedCounts ==
    (kind = "fixture" /\ pc = "done" /\ ret = "stats" /\ ~interrupted) =>
        /\ stats.exitosos =
             Cardinality({i \in 1..Len(attempted) : disk[attempted[i] + 1] = "new"})
        /\ stats.saltados =
             Cardinality({i \in 1..Len(attempted) :
                 skip_existing /\ Exists(disk0, attempted[i])})

\* the rows at positions start .. min(start + lim, n) - 1 of df, in order
RangeOf(df, start, lim) ==
    LET hi == IF start + lim <= Len(df) THEN start + lim ELSE Len(df)
    IN [i \in 1..(IF hi > start THEN hi - start ELSE 0) |-> df[start + i]]

\* C12: a bulk run given a limit (0 included) attempts exactly the rows at
\* positions start_index .. min(start_index + limit, n) - 1 of the (filtered)
\* table, in table order.
C12_LimitBoundsTheRun ==
    (limit # {} /\ pc = "done" /\ ~interrupted /\ ret \in {"stats", "table"}) =>
        attempted = RangeOf(IF kind = "seasons" THEN Labels(table) ELSE FilteredNow,
                            start_index, CHOOSE n \in limit : TRUE)

\* C13: a smart download with restart_from_zero=True deletes nothing but the
\* target files of the rows of the filtered table (the files of the other
\* rows and every other file stay as they are), and then downloads from the
\* first filtered row on with the skipping of existing files disabled.
C13_RestartDeletesOnlyFiltered ==
    [][(pc = "idle" /\ pc' # "idle" /\ restart_from_zero') =>
         /\ \A i \in 1..Len(table) : (i - 1) \notin filters' => disk'[i] = disk[i]
         /\ data_tree' = data_tree
         /\ ~skip_existing'
         /\ start_index' = 0
         /\ to_process' # << >> => to_process'[1] = apply_filters(table, filters')[1]]_vars

\* C14: on the Clubes and Jugadores pages, when a selector is unset or the
\* selected season has no squads.json, the script never gets past the check:
\* no JSON file of the season is read and no later section runs, and once the
\* check is done a message is on the page and the script has stopped.
C14_MissingFilesStopPage ==
    (page # "none" /\ (selected < Selectors \/ squads_file = "absent")) =>
        /\ reads = {}
        /\ page_pc \in {"selectors", "squads", "stopped"}
        /\ page_pc = "stopped" => messages # << >>
        /\ (page_pc = "squads" => selected = Selectors)

\* the page stopped with a warning because squads.json is not there
C14_Witness ==
    /\ page \in {"clubes", "jugadores"}
    /\ selected = Selectors /\ squads_file = "absent"
    /\ page_pc = "stopped" /\ messages = <<"warning">> /\ reads = {}

\* C15: whatever its input, sanitize_dir_name returns a name that is not
\* empty, holds none of / \ * ? " < > | :, neither starts nor ends with a
\* space and has no two underscores in a row; None gives "unnamed".
C15_SanitizedNameIsValid ==
    clean_name # << >> =>
        LET r == clean_name[1] IN
        /\ r # << >>
        /\ \A i \in 1..Len(r) : r[i] \notin {"/", "\\", "*", "?", "\"", "<", ">", "|", ":"}
        /\ r # << >> => (r[1] # " " /\ r[Len(r)] # " ")
        /\ \A i \in 1..(Len(r) - 1) : ~(r[i] = "_" /\ r[i + 1] = "_")
        /\ name_arg.none => r = <<"u", "n", "n", "a", "m", "e", "d">>

\* C16: a season of which some but not all player files are on disk is taken
\* up again by a resume-mode smart download of player biographies: the
\* download does not report everything done and starts no later than that season.
C16_ResumeCompletesSeason ==
    [][(bio.pc = "idle" /\ bio'.pc # "idle" /\ bio'.smart /\ ~bio'.restart) =>
         \A s \in Seasons :
             (/\ bio_squads[s]
              /\ \E p \in Players : bio_files[s][p] # "absent"
              /\ \E p \in Players : bio_files[s][p] = "absent")
             => (bio'.ret # "alldone" /\ bio'.start <= s - 1)]_vars

\* C18: save_playerbio_json returns True and counts the season in exitos, not
\* in fallos, whenever no player of the season failed and every player has
\* his file on disk after the call, the case of all players skipped included.
C18_CompleteSeasonIsSuccess ==
    [][(/\ bio.pc = "season" /\ bio.spos < Len(bio.todo)
        /\ bio'.pc = "season" /\ bio'.spos = bio.spos + 1
        /\ bio_squads[bio.todo[bio.spos + 1]]
        /\ bio.pl.fallidos = 0
        /\ \A p \in Players : bio_files[bio.todo[bio.spos + 1]][p] # "absent")
       => (/\ bio'.result
           /\ bio'.st.exitos = bio.st.exitos + 1
           /\ bio'.st.fallos = bio.st.fallos)]_vars

C19_SkippedFilesAreComplete ==
    [][/\ (pc = "idle" /\ pc' # "idle" /\ smart') =>
            \A l \in AllRows :
                (l < start_index' /\ Exists(disk, l)) => disk[l + 1] # "partial"
       /\ (pc = "loop" /\ Downloading /\ pos' = pos + 1 /\ skip_existing
             /\ Exists(disk, CurRow)) => disk[CurRow + 1] # "partial"]_vars

\* C20: when a smart download of standings is called again and again in
\* resume mode with the same batch_size, every row whose target path can be
\* built and whose file is missing is attempted at some time.
C20_ResumeReachesEveryRow ==
    \A l \in AllRows :
        (kind = "standings" /\ Row(l).st # "nodata" /\ ~Exists(disk, l))
            ~> (\E i \in 1..Len(attempted) : attempted[i] = l)

\* C21: a restart loses no data when the network is healthy: once a smart
\* download with restart_from_zero=True is over, was not interrupted and
\* counted no failure, every row of the filtered table that had its file before
\* the call has its file, whatever batch_size (>= 1) was given.
C21_RestartKeepsFiles ==
    (smart /\ restart_from_zero /\ pc = "done" /\ ret = "stats" /\ ~interrupted
       /\ stats.fallos = 0 /\ limit # {} /\ 0 \notin limit) =>
        \A i \in 1..Len(FilteredNow) :
            Exists(disk0, FilteredNow[i]) => Exists(disk, FilteredNow[i])

====
